---- MODULE Spec2Model ----
(***************************************************************************)
(* Model of src/api/api_whatsapp.js: the two Express handlers              *)
(* GET /get_whatsapp_links and GET /get_categories, the paginated          *)
(* collector getWhatsappGroupLinks and getCategories.                      *)
(*                                                                         *)
(* JavaScript runs a handler without interruption between two awaits, so   *)
(* one action is one such run: the arrival of a request up to its first    *)
(* await, or the settling of an awaited axios.get up to the next await or  *)
(* to the response.  Strings that the code inspects (URLs, names) are      *)
(* sequences of one-character strings.                                     *)
(***************************************************************************)
EXTENDS Integers, Sequences, FiniteSets, TLC

\* ------------------------------------------------------------------ bounds
NumReqs == 2
MaxCards == 2
MaxPage == 3
MaxNum == 2
MaxAnchors == 1
MaxHrefLen == 5
MaxBaseLen == 2
\* the last listing page that is answered when requests run together
ConcPage == 2

\* ------------------------------------------------------- program constants
\* parseInt(req.query.num_links) || 5
DefaultNumLinks == 5

\* "chat.whatsapp.com"
Marker == <<"c","h","a","t",".","w","h","a","t","s","a","p","p",".","c","o","m">>

\* "http"
HttpPrefix == <<"h","t","t","p">>

\* "https://gruposwhats.app", kept short: only its being non-empty is used
DefaultBaseUrl == <<"d">>

Reqs == 1..NumReqs

Min(a, b) == IF a < b THEN a ELSE b

\* ------------------------------------------------------------ pure helpers
\* String.prototype.includes
Includes(s, sub) ==
  \E k \in 0..(Len(s) - Len(sub)) : SubSeq(s, k + 1, k + Len(sub)) = sub

\* String.prototype.startsWith
StartsWith(s, p) == Len(s) >= Len(p) /\ SubSeq(s, 1, Len(p)) = p

\* a variant that leaves the trailing slash of the base in place
KeepTrailingSlash(s) == s

\* base.replace(/\/$/, ""): one trailing slash removed
StripTrailingSlash(s) ==
  IF Len(s) > 0 /\ s[Len(s)] = "/" THEN SubSeq(s, 1, Len(s) - 1) ELSE s

\* href.replace(/^\//, ""): one leading slash removed
StripLeadingSlash(s) ==
  IF Len(s) > 0 /\ s[1] = "/" THEN SubSeq(s, 2, Len(s)) ELSE s

\* lines 60-63: the URL of the detail page of a card
ResolveDetailUrl(base, href) ==
  IF StartsWith(href, HttpPrefix)
  THEN href
  ELSE StripTrailingSlash(base) \o <<"/">> \o StripLeadingSlash(href)

\* Array.prototype.slice(0, n) for n >= 0
Slice(s, n) == SubSeq(s, 1, Min(Len(s), n))

\* parseInt of the num_links query value: a number, or NaN
ParseInt(q) == IF q.kind = "int" THEN q ELSE [kind |-> "NaN", n |-> 0]

\* v || d on a number: NaN and 0 are falsy
OrDefault(v, d) == IF v.kind = "NaN" \/ v.n = 0 THEN d ELSE v.n

\* req.query.base_url || "https://gruposwhats.app": "" and undefined are falsy
BaseOrDefault(b) == IF b = <<>> THEN DefaultBaseUrl ELSE b

\* String.prototype.trim over the blank " "
RECURSIVE TrimLeft(_)
TrimLeft(s) == IF Len(s) > 0 /\ s[1] = " " THEN TrimLeft(Tail(s)) ELSE s

RECURSIVE TrimRight(_)
TrimRight(s) ==
  IF Len(s) > 0 /\ s[Len(s)] = " " THEN TrimRight(SubSeq(s, 1, Len(s) - 1)) ELSE s

Trim(s) == TrimRight(TrimLeft(s))

\* ------------------------------------------------------ what the site sends
\* data-url values a detail page may carry
UrlA == Marker \o <<"/","A">>
UrlB == <<"w","/">> \o Marker \o <<"/","B">>
UrlNear == <<"c","h","a","t",".","w","h","a","t","s","a","p","p",".","c","o","/","A">>
DataUrls == {UrlA, UrlB, UrlNear}

\* What the detail page of a card answers: the fetch fails, the page has no
\* a.btn.btn-success.btn-block[data-url], or it has one with this data-url.
Details ==
  {[kind |-> "error", url |-> <<>>], [kind |-> "notag", url |-> <<>>]}
    \cup {[kind |-> "url", url |-> u] : u \in DataUrls}

\* A div.card.group: without an a[href] in its card body, or with one whose
\* detail page answers as given.
NoLinkCard == [link |-> FALSE, detail |-> [kind |-> "none", url |-> <<>>]]
Cards == {NoLinkCard} \cup {[link |-> TRUE, detail |-> d] : d \in Details}

SeqsUpTo(S, n) == UNION {[1..k -> S] : k \in 0..n}

\* a listing page that is fetched and parsed: its group cards
ListingPages == SeqsUpTo(Cards, MaxCards)
ListingResponses == {[ok |-> FALSE, cards |-> <<>>]}
                      \cup {[ok |-> TRUE, cards |-> p] : p \in ListingPages}

\* what the site answers to requests that run together (SpecConc): pages of
\* at most two cards whose detail pages fail or carry a marked data-url
CardError == [link |-> TRUE, detail |-> [kind |-> "error", url |-> <<>>]]
CardA == [link |-> TRUE, detail |-> [kind |-> "url", url |-> UrlA]]
CardB == [link |-> TRUE, detail |-> [kind |-> "url", url |-> UrlB]]
ConcListingResponses ==
  {[ok |-> FALSE, cards |-> <<>>]}
    \cup {[ok |-> TRUE, cards |-> p] :
            p \in {<<>>, <<CardA>>, <<CardB>>, <<CardError>>, <<CardA, CardB>>}}

\* the home page: a.category anchors, each with the text of its
\* .category-name and its href ("" when there is none)
Names == {<<>>, <<" ">>, <<" ","F"," ">>}
CatHrefs == {<<>>, <<"/","c">>}
Anchors == [name : Names, href : CatHrefs]
HomeResponses == {[ok |-> FALSE, anchors |-> <<>>]}
                   \cup {[ok |-> TRUE, anchors |-> a] : a \in SeqsUpTo(Anchors, MaxAnchors)}
ConcHomeResponses ==
  {[ok |-> FALSE, anchors |-> <<>>], [ok |-> TRUE, anchors |-> <<>>],
   [ok |-> TRUE, anchors |-> <<[name |-> <<" ", "F", " ">>, href |-> <<"/", "c">>]>>]}

\* the query strings of a request
NumQueries == {[kind |-> "absent", n |-> 0], [kind |-> "text", n |-> 0]}
                \cup {[kind |-> "int", n |-> n] : n \in (0 - MaxNum)..MaxNum}
\* base_url absent, or given as the default site
BaseQueries == {<<>>, DefaultBaseUrl}

VARIABLES
  pc,             \* where each request is: "off", "new", "awaitListing",
                  \* "awaitDetail", "awaitHome", "done"
  kind,           \* the route of the request: "links", "categories", "none"
  query,          \* req.query.num_links as it arrived
  baseUrl,        \* const baseUrl of the handler
  numLinks,       \* const numLinks of the handler = numLinksToGet
  allGroupLinks,  \* per call frame
  pageCounter,    \* per call frame
  groupCards,     \* the cards of the listing page being walked
  i,              \* the index of the for loop, 0-based
  exitVia,        \* how the while loop was left: "none", "fetchError",
                  \* "noCards", "full"
  returned,       \* what getWhatsappGroupLinks / getCategories returned
  status,         \* HTTP status of the response, 0 while there is none
  body,           \* the JSON array of a 200 response
  fetches,        \* number of axios.get calls the request has issued
  listed,         \* the data-urls with the marker on the listing pages the
                  \* request has received, in document order
  lastEvent,      \* what the site last answered to the request: "none",
                  \* "listingError", "listingEmpty", "listingCards",
                  \* "detailError", "detailOk", "homeError", "homeOk"
  recording,      \* whether heard is kept (SpecConc)
  heard,          \* the responses of the site the request has received
  urlIn,          \* SpecUrl: the base URL and the href
  detailPageUrl   \* SpecUrl: the resolved URL

vars == <<pc, kind, query, baseUrl, numLinks, allGroupLinks, pageCounter,
          groupCards, i, exitVia, returned, status, body, fetches, listed,
          lastEvent, recording, heard, urlIn, detailPageUrl>>

\* a variant with the accumulator and the page counter at module level,
\* shared by every call
FrameShared(r) == 1

\* ------------------------------------------------------------- call frames
\* lines 35-36: allGroupLinks and pageCounter are locals of one call of
\* getWhatsappGroupLinks, so each request has its own
Frame(r) == r

NoReturn == [state |-> "none", value |-> <<>>]

\* --------------------------------------------------------------- the state
InitCommon ==
  /\ kind = [r \in Reqs |-> "none"]
  /\ query = [r \in Reqs |-> [kind |-> "absent", n |-> 0]]
  /\ baseUrl = [r \in Reqs |-> <<>>]
  /\ numLinks = [r \in Reqs |-> 0]
  /\ allGroupLinks = [r \in Reqs |-> <<>>]
  /\ pageCounter = [r \in Reqs |-> 0]
  /\ groupCards = [r \in Reqs |-> <<>>]
  /\ i = [r \in Reqs |-> 0]
  /\ exitVia = [r \in Reqs |-> "none"]
  /\ returned = [r \in Reqs |-> NoReturn]
  /\ status = [r \in Reqs |-> 0]
  /\ body = [r \in Reqs |-> <<>>]
  /\ fetches = [r \in Reqs |-> 0]
  /\ listed = [r \in Reqs |-> <<>>]
  /\ heard = [r \in Reqs |-> <<>>]
  /\ lastEvent = [r \in Reqs |-> "none"]

\* one request is served, against any site
Init ==
  /\ InitCommon
  /\ pc = [r \in Reqs |-> IF r = 1 THEN "new" ELSE "off"]
  /\ recording = FALSE
  /\ urlIn = [base |-> <<>>, href |-> <<>>]
  /\ detailPageUrl = <<"unset">>

\* ------------------------------------------------- getWhatsappGroupLinks
\* line 57-58: the first card at index >= j (0-based) that has an a[href];
\* Len(cards) when there is none
RECURSIVE ScanFrom(_, _)
ScanFrom(cards, j) ==
  IF j >= Len(cards) THEN Len(cards)
  ELSE IF cards[j + 1].link THEN j ELSE ScanFrom(cards, j + 1)

\* a variant that pushes every data-url, without the includes test
PushedAny(acc, d) == IF d.kind = "url" THEN Append(acc, d.url) ELSE acc

\* lines 71-76: what a detail response adds to the accumulator
Pushed(acc, d) ==
  IF d.kind = "url" /\ Includes(d.url, Marker) THEN Append(acc, d.url) ELSE acc

\* lines 99-105: the categories of a parsed home page
RECURSIVE ExtractCategories(_)
ExtractCategories(anchors) ==
  IF anchors = <<>> THEN <<>>
  ELSE LET a == Head(anchors)
           name == Trim(a.name)
       IN (IF name # <<>> /\ a.href # <<>>
           THEN <<[name |-> name, url |-> a.href]>> ELSE <<>>)
          \o ExtractCategories(Tail(anchors))

\* a variant that answers 200 with [] when nothing was collected
LinksStatusNo404(ret) == IF ret.state = "throw" THEN 500 ELSE 200

\* lines 156-164: the response of /get_whatsapp_links to what the collector
\* returned or threw
LinksStatus(ret) ==
  IF ret.state = "throw" THEN 500
  ELSE IF Len(ret.value) = 0 THEN 404 ELSE 200

\* lines 199-204: the response of /get_categories
CategoriesStatus(ret) == IF ret.state = "throw" THEN 500 ELSE 200

\* line 88 and lines 156-164: the collector returns and the handler answers
Return(r, acc, via) ==
  LET ret == [state |-> "value", value |-> Slice(acc, numLinks'[r])] IN
  /\ pc' = [pc EXCEPT ![r] = "done"]
  /\ exitVia' = [exitVia EXCEPT ![r] = via]
  /\ returned' = [returned EXCEPT ![r] = ret]
  /\ status' = [status EXCEPT ![r] = LinksStatus(ret)]
  /\ body' = [body EXCEPT ![r] = IF LinksStatus(ret) = 200 THEN ret.value ELSE <<>>]
  /\ groupCards' = [groupCards EXCEPT ![r] = <<>>]
  /\ i' = [i EXCEPT ![r] = 0]
  /\ pageCounter' = pageCounter
  /\ fetches' = fetches

\* a variant with a cap on the listing pages: it gives up after page 2
WhileCapped(r, acc, page) ==
  IF Len(acc) < numLinks'[r] /\ page <= 2
  THEN /\ pc' = [pc EXCEPT ![r] = "awaitListing"]
       /\ pageCounter' = [pageCounter EXCEPT ![Frame(r)] = page]
       /\ fetches' = [fetches EXCEPT ![r] = @ + 1]
       /\ groupCards' = [groupCards EXCEPT ![r] = <<>>]
       /\ i' = [i EXCEPT ![r] = 0]
       /\ UNCHANGED <<exitVia, returned, status, body>>
  ELSE Return(r, acc, "full")

\* line 38, 39-44: the while condition, then the fetch of the listing page
While(r, acc, page) ==
  IF Len(acc) < numLinks'[r]
  THEN /\ pc' = [pc EXCEPT ![r] = "awaitListing"]
       /\ pageCounter' = [pageCounter EXCEPT ![Frame(r)] = page]
       /\ fetches' = [fetches EXCEPT ![r] = @ + 1]
       /\ groupCards' = [groupCards EXCEPT ![r] = <<>>]
       /\ i' = [i EXCEPT ![r] = 0]
       /\ UNCHANGED <<exitVia, returned, status, body>>
  ELSE Return(r, acc, "full")

\* a variant whose for condition is only i < groupCards.length
ForLoopNoTargetCheck(r, acc, cards, j) ==
  LET k == ScanFrom(cards, j) IN
  IF k < Len(cards)
  THEN /\ pc' = [pc EXCEPT ![r] = "awaitDetail"]
       /\ groupCards' = [groupCards EXCEPT ![r] = cards]
       /\ i' = [i EXCEPT ![r] = k]
       /\ fetches' = [fetches EXCEPT ![r] = @ + 1]
       /\ UNCHANGED <<pageCounter, exitVia, returned, status, body>>
  ELSE While(r, acc, pageCounter[Frame(r)] + 1)

\* lines 50-66 and 82: the for loop from index j on, up to the fetch of the
\* next detail page, or past its end to pageCounter++ and the while condition
ForLoop(r, acc, cards, j) ==
  LET k == ScanFrom(cards, j) IN
  IF Len(acc) < numLinks'[r] /\ k < Len(cards)
  THEN /\ pc' = [pc EXCEPT ![r] = "awaitDetail"]
       /\ groupCards' = [groupCards EXCEPT ![r] = cards]
       /\ i' = [i EXCEPT ![r] = k]
       /\ fetches' = [fetches EXCEPT ![r] = @ + 1]
       /\ UNCHANGED <<pageCounter, exitVia, returned, status, body>>
  ELSE While(r, acc, pageCounter[Frame(r)] + 1)

\* the data-urls with the marker that the detail pages of these cards carry
RECURSIVE ValidLinks(_)
ValidLinks(cards) ==
  IF cards = <<>> THEN <<>>
  ELSE LET c == Head(cards) IN
       (IF c.link /\ c.detail.kind = "url" /\ Includes(c.detail.url, Marker)
        THEN <<c.detail.url>> ELSE <<>>)
       \o ValidLinks(Tail(cards))

\* ------------------------------------------------------------ the actions
\* lines 148-157, 34-44: GET /get_whatsapp_links arrives; the handler
\* validates and the collector runs up to its first axios.get
GetWhatsappLinks(r, bq, nq) ==
  /\ pc[r] = "new"
  /\ kind' = [kind EXCEPT ![r] = "links"]
  /\ query' = [query EXCEPT ![r] = nq]
  /\ baseUrl' = [baseUrl EXCEPT ![r] = BaseOrDefault(bq)]
  /\ numLinks' = [numLinks EXCEPT ![r] = OrDefault(ParseInt(nq), DefaultNumLinks)]
  /\ UNCHANGED <<listed, lastEvent, recording, heard, urlIn, detailPageUrl>>
  /\ IF baseUrl'[r] = <<>> \/ numLinks'[r] <= 0
     THEN /\ pc' = [pc EXCEPT ![r] = "done"]
          /\ status' = [status EXCEPT ![r] = 400]
          /\ UNCHANGED <<allGroupLinks, pageCounter, groupCards, i, exitVia,
                         returned, body, fetches>>
     ELSE /\ allGroupLinks' = [allGroupLinks EXCEPT ![Frame(r)] = <<>>]
          /\ While(r, <<>>, 1)

\* a variant that fetches the same listing page again when its fetch fails
ListingResponseRetry(r, resp) ==
  /\ pc[r] = "awaitListing"
  /\ pageCounter[Frame(r)] <= MaxPage
  /\ UNCHANGED <<kind, query, baseUrl, numLinks, allGroupLinks, recording,
                 urlIn, detailPageUrl>>
  /\ heard' = [heard EXCEPT ![r] = IF recording THEN Append(@, resp) ELSE @]
  /\ lastEvent' = [lastEvent EXCEPT ![r] =
                     IF ~resp.ok THEN "listingError"
                     ELSE IF Len(resp.cards) = 0 THEN "listingEmpty"
                     ELSE "listingCards"]
  /\ IF ~resp.ok
     THEN /\ While(r, allGroupLinks[Frame(r)], pageCounter[Frame(r)])
          /\ listed' = listed
     ELSE /\ listed' = [listed EXCEPT ![r] = @ \o ValidLinks(resp.cards)]
          /\ IF Len(resp.cards) = 0
             THEN Return(r, allGroupLinks[Frame(r)], "noCards")
             ELSE ForLoop(r, allGroupLinks[Frame(r)], resp.cards, 0)

\* lines 44-48, 83-85: the listing page arrives, or its fetch fails
ListingResponse(r, resp) ==
  /\ pc[r] = "awaitListing"
  /\ pageCounter[Frame(r)] <= MaxPage
  /\ UNCHANGED <<kind, query, baseUrl, numLinks, allGroupLinks, recording,
                 urlIn, detailPageUrl>>
  /\ heard' = [heard EXCEPT ![r] = IF recording THEN Append(@, resp) ELSE @]
  /\ lastEvent' = [lastEvent EXCEPT ![r] =
                     IF ~resp.ok THEN "listingError"
                     ELSE IF Len(resp.cards) = 0 THEN "listingEmpty"
                     ELSE "listingCards"]
  /\ IF ~resp.ok
     THEN /\ Return(r, allGroupLinks[Frame(r)], "fetchError")
          /\ listed' = listed
     ELSE /\ listed' = [listed EXCEPT ![r] = @ \o ValidLinks(resp.cards)]
          /\ IF Len(resp.cards) = 0
             THEN Return(r, allGroupLinks[Frame(r)], "noCards")
             ELSE ForLoop(r, allGroupLinks[Frame(r)], resp.cards, 0)

\* a variant whose inner catch leaves the page instead of continuing
DetailResponseFatal(r) ==
  /\ pc[r] = "awaitDetail"
  /\ UNCHANGED <<kind, query, baseUrl, numLinks, listed, recording, heard,
                 urlIn, detailPageUrl>>
  /\ lastEvent' = [lastEvent EXCEPT ![r] =
                     IF groupCards[r][i[r] + 1].detail.kind = "error"
                     THEN "detailError" ELSE "detailOk"]
  /\ LET acc == Pushed(allGroupLinks[Frame(r)], groupCards[r][i[r] + 1].detail) IN
     /\ allGroupLinks' = [allGroupLinks EXCEPT ![Frame(r)] = acc]
     /\ IF groupCards[r][i[r] + 1].detail.kind = "error"
        THEN While(r, acc, pageCounter[Frame(r)] + 1)
        ELSE ForLoop(r, acc, groupCards[r], i[r] + 1)

\* lines 66-80: the detail page of card i arrives, or its fetch fails
DetailResponse(r) ==
  /\ pc[r] = "awaitDetail"
  /\ UNCHANGED <<kind, query, baseUrl, numLinks, listed, recording, heard,
                 urlIn, detailPageUrl>>
  /\ lastEvent' = [lastEvent EXCEPT ![r] =
                     IF groupCards[r][i[r] + 1].detail.kind = "error"
                     THEN "detailError" ELSE "detailOk"]
  /\ LET acc == Pushed(allGroupLinks[Frame(r)], groupCards[r][i[r] + 1].detail) IN
     /\ allGroupLinks' = [allGroupLinks EXCEPT ![Frame(r)] = acc]
     /\ ForLoop(r, acc, groupCards[r], i[r] + 1)

\* lines 196-200, 92-94: GET /get_categories arrives; getCategories runs up
\* to its axios.get
GetCategoriesRequest(r, bq) ==
  /\ pc[r] = "new"
  /\ kind' = [kind EXCEPT ![r] = "categories"]
  /\ baseUrl' = [baseUrl EXCEPT ![r] = BaseOrDefault(bq)]
  /\ pc' = [pc EXCEPT ![r] = "awaitHome"]
  /\ fetches' = [fetches EXCEPT ![r] = @ + 1]
  /\ UNCHANGED <<query, numLinks, allGroupLinks, pageCounter, groupCards, i,
                 exitVia, returned, status, body, listed, lastEvent, recording,
                 heard, urlIn, detailPageUrl>>

\* a variant whose catch rethrows
getCategoriesRethrow(resp) ==
  IF resp.ok
  THEN [state |-> "value", value |-> ExtractCategories(resp.anchors)]
  ELSE [state |-> "throw", value |-> <<>>]

\* lines 93-111: what getCategories returns for a settled fetch: the fetch
\* failed or cheerio threw (ok = FALSE), or the page was parsed
getCategories(resp) ==
  IF resp.ok
  THEN [state |-> "value", value |-> ExtractCategories(resp.anchors)]
  ELSE [state |-> "value", value |-> <<>>]

\* lines 94-111, 200-204: the home page arrives, or its fetch fails
HomeResponse(r, resp) ==
  /\ pc[r] = "awaitHome"
  /\ LET ret == getCategories(resp) IN
     /\ returned' = [returned EXCEPT ![r] = ret]
     /\ status' = [status EXCEPT ![r] = CategoriesStatus(ret)]
     /\ body' = [body EXCEPT ![r] = IF ret.state = "value" THEN ret.value ELSE <<>>]
  /\ lastEvent' = [lastEvent EXCEPT ![r] = IF resp.ok THEN "homeOk" ELSE "homeError"]
  /\ pc' = [pc EXCEPT ![r] = "done"]
  /\ UNCHANGED <<kind, query, baseUrl, numLinks, allGroupLinks, pageCounter,
                 groupCards, i, exitVia, fetches, listed, recording, urlIn,
                 detailPageUrl>>
  /\ heard' = [heard EXCEPT ![r] = IF recording THEN Append(@, resp) ELSE @]

Next ==
  \E r \in Reqs :
    \/ \E bq \in BaseQueries, nq \in NumQueries : GetWhatsappLinks(r, bq, nq)
    \/ \E resp \in ListingResponses : ListingResponse(r, resp)
    \/ DetailResponse(r)
    \/ \E bq \in BaseQueries : GetCategoriesRequest(r, bq)
    \/ \E resp \in HomeResponses : HomeResponse(r, resp)

Spec == Init /\ [][Next]_vars

\* ------------------------------------------- several requests interleaved
ConcNumQueries == {[kind |-> "int", n |-> n] : n \in {0 - 1, 1, 2}}

InitConc ==
  /\ InitCommon
  /\ pc = [r \in Reqs |-> "new"]
  /\ recording = TRUE
  /\ urlIn = [base |-> <<>>, href |-> <<>>]
  /\ detailPageUrl = <<"unset">>

NextConc ==
  \E r \in Reqs :
    \/ \E nq \in ConcNumQueries : GetWhatsappLinks(r, <<>>, nq)
    \/ \E resp \in ConcListingResponses :
         pageCounter[Frame(r)] <= ConcPage /\ ListingResponse(r, resp)
    \/ DetailResponse(r)
    \/ GetCategoriesRequest(r, <<>>)
    \/ \E resp \in ConcHomeResponses : HomeResponse(r, resp)

SpecConc == InitConc /\ [][NextConc]_vars

\* ------------------------------------------------- the detail URL alone
HrefChars == {"h", "t", "p", "/", ":"}
BaseChars == {"s", "/"}
HrefStrs == SeqsUpTo(HrefChars, MaxHrefLen)
BaseStrs == SeqsUpTo(BaseChars, MaxBaseLen) \ {<<>>}

InitUrl ==
  /\ InitCommon
  /\ pc = [r \in Reqs |-> "off"]
  /\ recording = FALSE
  /\ urlIn \in [base : BaseStrs, href : HrefStrs]
  /\ detailPageUrl = <<"unset">>

\* lines 60-63 on the href of one card
ResolveCard ==
  /\ detailPageUrl = <<"unset">>
  /\ detailPageUrl' = ResolveDetailUrl(urlIn.base, urlIn.href)
  /\ UNCHANGED <<pc, kind, query, baseUrl, numLinks, allGroupLinks, pageCounter,
                 groupCards, i, exitVia, returned, status, body, fetches, listed,
                 lastEvent, recording, heard, urlIn>>

SpecUrl == InitUrl /\ [][ResolveCard]_vars

\* ================================================================ claims
Acc(r) == allGroupLinks[Frame(r)]
Running(r) == pc[r] \in {"awaitListing", "awaitDetail"}
\* request r took this step
Moved(r) == pc'[r] # pc[r] \/ fetches'[r] # fetches[r]
\* the card whose detail page request r is waiting for
CurrentCard(r) == groupCards[r][i[r] + 1]

\* C1: every /get_whatsapp_links request whose num_links is an integer <= 0,
\* zero included, is answered 400 and issues no fetch.
C1_NonPositiveRejected ==
  \A r \in Reqs :
    (kind[r] = "links" /\ query[r].kind = "int" /\ query[r].n <= 0)
      => (pc[r] = "done" /\ status[r] = 400 /\ fetches[r] = 0)

\* C2: for a target > 0 the accumulator never holds more than target links,
\* and the returned sequence has length min(target, available), available
\* being the number of cards with a marked data-url on the listing pages
\* received before the one that failed or was empty.
C2_LengthIsMinTargetAvailable ==
  \A r \in Reqs :
    (kind[r] = "links" /\ numLinks[r] > 0)
      => /\ Len(Acc(r)) <= numLinks[r]
         /\ returned[r].state = "value"
              => /\ Len(returned[r].value) = Min(numLinks[r], Len(listed[r]))
                 /\ Len(returned[r].value) <= numLinks[r]

C2_Witness ==
  \E r \in Reqs :
    /\ kind[r] = "links" /\ returned[r].state = "value"
    /\ numLinks[r] = 2 /\ Len(returned[r].value) = 2 /\ Len(listed[r]) = 3

\* C3: a first listing page with zero cards makes the collector return []
\* after exactly one fetch and the handler answer 404; the handler answers
\* 200, with the links, exactly when the collector returned a non-empty list.
C3_EmptyFirstPageIs404 ==
  \A r \in Reqs :
    kind[r] = "links"
      => /\ (lastEvent[r] = "listingEmpty" /\ pageCounter[Frame(r)] = 1)
              => /\ pc[r] = "done"
                 /\ returned[r] = [state |-> "value", value |-> <<>>]
                 /\ fetches[r] = 1
                 /\ status[r] = 404
         /\ returned[r].state = "value"
              => /\ (status[r] = 200) <=> (returned[r].value # <<>>)
                 /\ (status[r] = 200) => (body[r] = returned[r].value)
                 /\ (returned[r].value = <<>>) => (status[r] = 404)

C3_Witness ==
  \E r \in Reqs :
    /\ kind[r] = "links" /\ lastEvent[r] = "listingEmpty"
    /\ pageCounter[Frame(r)] = 1 /\ status[r] = 404

C5_OnlyMarked ==
  \A r \in Reqs :
    /\ \A k \in 1..Len(Acc(r)) : Includes(Acc(r)[k], Marker)
    /\ kind[r] = "links"
         => \A k \in 1..Len(returned[r].value) : Includes(returned[r].value[k], Marker)

\* a detail page without the call-to-action tag, or whose data-url lacks the
\* marker, leaves the accumulator unchanged
C5_UnmarkedStep ==
  \A r \in Reqs :
    (/\ pc[r] = "awaitDetail" /\ Moved(r)
     /\ \/ CurrentCard(r).detail.kind = "notag"
        \/ /\ CurrentCard(r).detail.kind = "url"
           /\ ~Includes(CurrentCard(r).detail.url, Marker))
      => allGroupLinks' = allGroupLinks

\* C5: every link in the accumulator and in the returned sequence contains
\* "chat.whatsapp.com"; a detail page without the call-to-action tag, or
\* whose data-url lacks the marker, leaves the accumulator unchanged.
C5_OnlyMarkedLinks == []C5_OnlyMarked /\ [][C5_UnmarkedStep]_vars

C5_Witness ==
  \E r \in Reqs :
    /\ pc[r] = "awaitDetail" /\ i[r] = 1
    /\ groupCards[r][1].detail.url = UrlNear
    /\ Acc(r) = <<>>

\* the run of getWhatsappGroupLinks(_, target) alone over the listing
\* responses resps, as one sequential computation: lines 50-80 over the cards
\* of one page
RECURSIVE CollectCards(_, _, _)
CollectCards(acc, target, cards) ==
  IF cards = <<>> \/ Len(acc) >= target THEN acc
  ELSE LET c == Head(cards) IN
       CollectCards(IF c.link /\ c.detail.kind = "url" /\ Includes(c.detail.url, Marker)
                    THEN Append(acc, c.detail.url) ELSE acc,
                    target, Tail(cards))

\* lines 38-86 over the pages
RECURSIVE CollectPages(_, _, _)
CollectPages(acc, target, resps) ==
  IF Len(acc) >= target \/ resps = <<>> THEN acc
  ELSE IF ~Head(resps).ok \/ Head(resps).cards = <<>> THEN acc
  ELSE CollectPages(CollectCards(acc, target, Head(resps).cards), target, Tail(resps))

\* the status and body request r gets when it is served alone and the site
\* answers it what it answered in this run
AloneResponse(r) ==
  IF kind[r] = "links"
  THEN LET n == IF query[r].kind = "int" /\ query[r].n # 0
                THEN query[r].n ELSE DefaultNumLinks
           v == Slice(CollectPages(<<>>, n, heard[r]), n)
       IN IF n <= 0 THEN <<400, <<>>>>
          ELSE IF v = <<>> THEN <<404, <<>>>> ELSE <<200, v>>
  ELSE <<200, IF heard[r][1].ok THEN ExtractCategories(heard[r][1].anchors) ELSE <<>>>>

\* C6: with requests interleaved at their awaits, the status and body of
\* every answered request are those it gets when served alone against the
\* same answers of the site.
C6_ResponseAsAlone ==
  \A r \in Reqs : pc[r] = "done" => <<status[r], body[r]>> = AloneResponse(r)

C6_Witness ==
  /\ kind[1] = "links" /\ pc[1] = "done" /\ body[1] = <<UrlA, UrlB>>
  /\ kind[2] = "links" /\ pc[2] = "awaitDetail" /\ allGroupLinks[2] = <<UrlB>>

\* the step in which a listing fetch fails returns the accumulator, which
\* holds the links of the earlier pages, and issues no fetch
C7_ListingErrorStep ==
  \A r \in Reqs :
    (/\ kind[r] = "links" /\ pc[r] = "awaitListing" /\ Moved(r)
     /\ lastEvent'[r] = "listingError")
      => /\ pc'[r] = "done"
         /\ fetches'[r] = fetches[r]
         /\ returned'[r] = [state |-> "value", value |-> Acc(r)]
         /\ Acc(r) = listed[r]
         /\ status'[r] = IF Acc(r) = <<>> THEN 404 ELSE 200
         /\ body'[r] = Acc(r)

\* a request that was answered issues no fetch
C7_Final ==
  \A r \in Reqs : pc[r] = "done" => (pc'[r] = "done" /\ fetches'[r] = fetches[r])

\* C7: a failed listing fetch ends the collector at once: no fetch follows,
\* the page is not fetched again, and the links of the earlier pages are
\* returned (200 with them, or 404 when there are none, never an error).
C7_ListingErrorEndsLoop == [][C7_ListingErrorStep /\ C7_Final]_vars

C7_Witness ==
  \E r \in Reqs :
    /\ kind[r] = "links" /\ pc[r] = "done" /\ lastEvent[r] = "listingError"
    /\ pageCounter[Frame(r)] = 2 /\ returned[r].value = <<UrlB, UrlA>>
    /\ status[r] = 200

\* the step in which a detail fetch fails: the accumulator is unchanged and
\* the loop goes on with the next card that has a link, or with the next page
C8_DetailErrorStep ==
  \A r \in Reqs :
    (pc[r] = "awaitDetail" /\ Moved(r) /\ CurrentCard(r).detail.kind = "error")
      => /\ allGroupLinks' = allGroupLinks
         /\ LET later == {k \in (i[r] + 1)..(Len(groupCards[r]) - 1) :
                            groupCards[r][k + 1].link}
            IN IF later # {}
               THEN /\ pc'[r] = "awaitDetail"
                    /\ groupCards'[r] = groupCards[r]
                    /\ i'[r] \in later
                    /\ \A k \in later : i'[r] <= k
               ELSE /\ pc'[r] = "awaitListing"
                    /\ pageCounter'[Frame(r)] = pageCounter[Frame(r)] + 1
                    /\ fetches'[r] = fetches[r] + 1

\* the accumulator holds the marked data-urls of the cards walked so far, in
\* document order, and the result is the first target of them
C8_DocumentOrder ==
  \A r \in Reqs :
    kind[r] = "links"
      => /\ pc[r] = "awaitDetail"
              => Acc(r) \o ValidLinks(SubSeq(groupCards[r], i[r] + 1, Len(groupCards[r])))
                   = listed[r]
         /\ pc[r] = "awaitListing" => Acc(r) = listed[r]
         /\ returned[r].state = "value"
              => returned[r].value = Slice(listed[r], numLinks[r])

\* C8: a failed detail fetch leaves the accumulator as it was, the next card
\* of the page that has a link is fetched, and after the last card the page
\* counter goes up by one and the next listing page is fetched; the links
\* are kept in document order.
C8_DetailErrorSkipsCard == []C8_DocumentOrder /\ [][C8_DetailErrorStep]_vars

C8_Witness ==
  \E r \in Reqs :
    /\ pc[r] = "awaitDetail" /\ i[r] = 1 /\ lastEvent[r] = "detailError"
    /\ pageCounter[Frame(r)] = 2 /\ Acc(r) = <<UrlA>>

\* a collector that has returned saw a listing fetch fail or a listing page
\* without cards, or holds target links; one that has not saw none of these
C9_ReturnsOnlyWhen ==
  \A r \in Reqs :
    (kind[r] = "links" /\ numLinks[r] > 0)
      => /\ pc[r] = "done"
              => \/ lastEvent[r] \in {"listingError", "listingEmpty"}
                 \/ Len(Acc(r)) = numLinks[r]
         /\ Running(r)
              => /\ lastEvent[r] \notin {"listingError", "listingEmpty"}
                 /\ Len(Acc(r)) < numLinks[r]

\* after a page is walked the next listing fetch is for the next page number
C9_NextPageStep ==
  \A r \in Reqs :
    (Running(r) /\ Moved(r) /\ pc'[r] = "awaitListing")
      => pageCounter'[Frame(r)] = pageCounter[Frame(r)] + 1

\* C9: the collector has no bound on pages or fetches: it returns only when
\* a listing fetch failed, a listing page had no cards or the accumulator
\* reached target, so on a site whose pages all have cards and no marked
\* link it never returns and the page counter goes up page after page; and
\* it has returned as soon as one of the three holds.
C9_NoPageBound == []C9_ReturnsOnlyWhen /\ [][C9_NextPageStep]_vars

C9_Witness ==
  \E r \in Reqs :
    /\ pc[r] = "awaitListing" /\ pageCounter[Frame(r)] = MaxPage + 1
    /\ lastEvent[r] = "detailOk" /\ listed[r] = <<>>

\* an href that starts with a URI scheme: letters, then ":"
HasScheme(s) ==
  \E k \in 2..Len(s) : s[k] = ":" /\ \A j \in 1..(k - 1) : s[j] \in {"h", "t", "p"}

\* the base with one trailing slash stripped, "/", the href with one leading
\* slash stripped
Joined(base, href) ==
  (IF base # <<>> /\ base[Len(base)] = "/" THEN SubSeq(base, 1, Len(base) - 1) ELSE base)
    \o <<"/">>
    \o (IF href # <<>> /\ href[1] = "/" THEN Tail(href) ELSE href)

\* C10 as stated: the detail URL is the href unchanged if the href has a
\* scheme, and otherwise the base joined to the href.
C10_SchemeRule ==
  detailPageUrl # <<"unset">>
    => detailPageUrl = IF HasScheme(urlIn.href) THEN urlIn.href
                       ELSE Joined(urlIn.base, urlIn.href)

\* C10 amended: the detail URL is the href unchanged if the href starts
\* with the four characters "http", and otherwise the base joined to the href.
C10_HttpPrefixRule ==
  detailPageUrl # <<"unset">>
    => detailPageUrl =
         IF /\ Len(urlIn.href) >= 4
            /\ <<urlIn.href[1], urlIn.href[2], urlIn.href[3], urlIn.href[4]>>
                 = <<"h", "t", "t", "p">>
         THEN urlIn.href
         ELSE Joined(urlIn.base, urlIn.href)

C10_Witness ==
  /\ urlIn = [base |-> <<"s", "/">>, href |-> <<"/", "t">>]
  /\ detailPageUrl = <<"s", "/", "t">>

====
